---- MODULE Spec2Model ----
(***************************************************************************)
(* Skill packages: the Scaffolder (scaffold_skill.py) creates a package    *)
(* directory, the Validator (validate_skill.py) inspects one.              *)
(*                                                                         *)
(* A text is a sequence of symbols.  A symbol is a one-character string    *)
(* ("a", "1", "-", "A", " ", "\n") or a literal that stands for a run of   *)
(* characters none of which is whitespace ("name:", "description:",        *)
(* "---", "#", "T" for template prose).                                    *)
(*                                                                         *)
(* One behaviour follows one package path parent/name: every handler of    *)
(* the two scripts touches only the path it is given.                      *)
(***************************************************************************)
EXTENDS Naturals, Integers, Sequences, FiniteSets, TLC

VARIABLES
    name,        \* the requested name / the last component of the package path
    pkg,         \* what is on disk at parent/name
    last,        \* outcome of the last operation
    scaffolded   \* history: a scaffold of this name has succeeded

vars == <<name, pkg, last, scaffolded>>

(* ------------------------------ bounds --------------------------------- *)

MaxNameLen == 3

(* ------------------------------ symbols -------------------------------- *)

Lower == {"a"}
Digit == {"1"}
Hyphen == "-"
Newline == "\n"
NameChars == Lower \cup Digit \cup {Hyphen, "A", Newline}

Names == UNION {[1..k -> NameChars] : k \in 0..MaxNameLen}

\* [a-z0-9]
IsLowerAlnum(c) == c \in Lower \cup Digit

\* [a-z0-9-]
IsLowerAlnumHyphen(c) == IsLowerAlnum(c) \/ c = Hyphen

\* \s of Python's re on str
IsSpace(c) == c \in {" ", Newline}

(* --------------------- the identifier check (regex) -------------------- *)

\* re.match(r'^[a-z0-9][a-z0-9-]*[a-z0-9]$', s): without re.MULTILINE `$`
\* matches at the end of the string and also just before one final newline.
ReMatchName(s) ==
    \E e \in {Len(s), Len(s) - 1} :
        /\ e >= 2
        /\ e = Len(s) \/ s[Len(s)] = Newline
        /\ IsLowerAlnum(s[1])
        /\ IsLowerAlnum(s[e])
        /\ \A i \in 2..(e - 1) : IsLowerAlnumHyphen(s[i])

\* The check as the Scaffolder applies it (scaffold_skill.py line 351).
ScaffolderAccepts(s) == ReMatchName(s)

\* The check as the Validator applies it (validate_skill.py line 15).
ValidatorAccepts(s) == ReMatchName(s)

(* ------------------------------- texts --------------------------------- *)

RECURSIVE LStrip(_)
LStrip(t) == IF t # <<>> /\ IsSpace(Head(t)) THEN LStrip(Tail(t)) ELSE t

RECURSIVE RStrip(_)
RStrip(t) ==
    IF t # <<>> /\ IsSpace(t[Len(t)]) THEN RStrip(SubSeq(t, 1, Len(t) - 1)) ELSE t

\* str.strip()
Strip(t) == RStrip(LStrip(t))

\* str.upper() / str.lower() on one character
Upper(c) == IF c = "a" THEN "A" ELSE c
LowerCase(c) == IF c = "A" THEN "a" ELSE c

\* ' '.join(word.capitalize() for word in skill_name.split('-')): every
\* character is capitalised by its place in its word, every hyphen becomes
\* a space.
title_case_skill_name(n) ==
    [i \in 1..Len(n) |->
        IF n[i] = Hyphen THEN " "
        ELSE IF i = 1 \/ n[i - 1] = Hyphen THEN Upper(n[i]) ELSE LowerCase(n[i])]

\* A mutant: the title-cased form substituted into the `name:` field.
SKILL_MD_TEMPLATE_TitleAsName(skill_name, skill_title) ==
    <<"---", Newline, "name:", " ">> \o skill_title \o
    <<Newline, "description:", " ", "T", Newline, "---", Newline, Newline, "#", " ">>
    \o skill_title \o <<Newline, Newline, "T", Newline>>

\* SKILL_MD_TEMPLATE.format(skill_name=..., skill_title=...): the front
\* matter, a blank line, the title heading, then prose.  No line of the
\* prose starts with `name:` or `description:`.
SKILL_MD_TEMPLATE(skill_name, skill_title) ==
    <<"---", Newline, "name:", " ">> \o skill_name \o
    <<Newline, "description:", " ", "T", Newline, "---", Newline, Newline, "#", " ">>
    \o skill_title \o <<Newline, Newline, "T", Newline>>

(* ----------------- front-matter fields (regex search) ------------------ *)

NoMatch == [found |-> FALSE, value |-> <<>>]

\* `^` under re.MULTILINE: the start of the text or just after a newline.
AtLineStart(t, p) == p = 1 \/ t[p - 1] = Newline

\* The index of the last character of the line that holds index p.
RECURSIVE LineEnd(_, _)
LineEnd(t, p) == IF p < Len(t) /\ t[p + 1] # Newline THEN LineEnd(t, p + 1) ELSE p

\* The lengths k that `\s*` can take after the key at p so that `(.+)` finds
\* a character of a line to start on.
SpaceRuns(t, p) ==
    {k \in 0..(Len(t) - p) :
        /\ \A j \in 1..k : IsSpace(t[p + j])
        /\ p + k + 1 <= Len(t)
        /\ t[p + k + 1] # Newline}

Max(S) == CHOOSE x \in S : \A y \in S : y <= x
Min(S) == CHOOSE x \in S : \A y \in S : x <= y

\* The match of `^key\s*(.+)$` that starts at p, if there is one: `\s*` is
\* greedy, so it takes the longest run that lets the rest match; `.` does
\* not match a newline, `(.+)` runs to the end of its line, where `$`
\* matches under re.MULTILINE.
MatchAt(key, t, p) ==
    IF t[p] = key /\ AtLineStart(t, p) /\ SpaceRuns(t, p) # {}
    THEN LET k == Max(SpaceRuns(t, p))
         IN  [found |-> TRUE, value |-> SubSeq(t, p + k + 1, LineEnd(t, p + k + 1))]
    ELSE NoMatch

\* re.search(r'^key:\s*(.+)$', content, re.MULTILINE): the leftmost match.
ReSearchField(key, content) ==
    LET hits == {p \in 1..Len(content) : MatchAt(key, content, p).found}
    IN  IF hits = {} THEN NoMatch ELSE MatchAt(key, content, Min(hits))

(* ---------------------------- the filesystem --------------------------- *)

NoDoc == [kind |-> "absent", text |-> <<>>]
TextDoc(t) == [kind |-> "text", text |-> t]
\* SKILL.md exists and open()/read() raises on it (bytes that do not decode)
UndecodableDoc == [kind |-> "undecodable", text |-> <<>>]

\* parent/name does not exist
NoPkg == [exists |-> FALSE, doc |-> NoDoc, dirs |-> {}, files |-> {}, exec |-> {}]
\* parent/name is an empty directory
EmptyPkg == [NoPkg EXCEPT !.exists = TRUE]

(* ------------------------------ outcomes ------------------------------- *)

Finding(kind, declared, dir) == [kind |-> kind, declared |-> declared, dir |-> dir]

NoOp ==
    [op |-> "none", simple |-> FALSE, exit |-> 0, err |-> "none", status |-> "NONE",
     errors |-> <<>>, warnings |-> <<>>]

ScaffoldOutcome(simple, exit, err) ==
    [NoOp EXCEPT !.op = "scaffold", !.simple = simple, !.exit = exit, !.err = err]

AuthorOutcome == [NoOp EXCEPT !.op = "author"]

(* ---------------------------- the Scaffolder --------------------------- *)

\* The filesystem calls of scaffold_skill in program order.
ResourceSteps ==
    <<"scripts_mkdir", "scripts_write", "scripts_chmod",
      "references_mkdir", "references_write",
      "assets_mkdir", "assets_write">>

\* A mutant: simple_mode is ignored and the resource directories are made.
ScaffoldStepsAlwaysFull(simple_mode) ==
    <<"mkdir", "skill_md", "scripts_mkdir", "scripts_write", "scripts_chmod",
      "references_mkdir", "references_write", "assets_mkdir", "assets_write">>

ScaffoldSteps(simple_mode) ==
    <<"mkdir", "skill_md">> \o (IF simple_mode THEN <<>> ELSE ResourceSteps)

FailPoints == {"none", "mkdir", "skill_md"} \cup {ResourceSteps[i] : i \in 1..Len(ResourceSteps)}

\* What one filesystem call that succeeds does to the package.
ApplyStep(p, step, skill_name) ==
    CASE step = "mkdir" -> [p EXCEPT !.exists = TRUE]
      [] step = "skill_md" ->
            [p EXCEPT !.doc = TextDoc(SKILL_MD_TEMPLATE(skill_name,
                                          title_case_skill_name(skill_name)))]
      [] step = "scripts_mkdir" -> [p EXCEPT !.dirs = @ \cup {"scripts"}]
      [] step = "scripts_write" -> [p EXCEPT !.files = @ \cup {"scripts/example.py"}]
      [] step = "scripts_chmod" -> [p EXCEPT !.exec = @ \cup {"scripts/example.py"}]
      [] step = "references_mkdir" -> [p EXCEPT !.dirs = @ \cup {"references"}]
      [] step = "references_write" ->
            [p EXCEPT !.files = @ \cup {"references/example_reference.md"}]
      [] step = "assets_mkdir" -> [p EXCEPT !.dirs = @ \cup {"assets"}]
      [] step = "assets_write" -> [p EXCEPT !.files = @ \cup {"assets/README.md"}]

\* What a write_text that raises may leave behind: nothing, or the file it
\* opened, still empty.
ApplyFailedStep(p, step, partial) ==
    IF ~partial THEN p
    ELSE CASE step = "skill_md" -> [p EXCEPT !.doc = TextDoc(<<>>)]
           [] step = "scripts_write" -> [p EXCEPT !.files = @ \cup {"scripts/example.py"}]
           [] step = "references_write" ->
                 [p EXCEPT !.files = @ \cup {"references/example_reference.md"}]
           [] step = "assets_write" -> [p EXCEPT !.files = @ \cup {"assets/README.md"}]
           [] OTHER -> p

\* A mutant: the step that raises is skipped and the later ones still run.
RECURSIVE RunStepsContinue(_, _, _, _, _, _)
RunStepsContinue(p, steps, i, failAt, partial, skill_name) ==
    IF i > Len(steps) THEN [pkg |-> p, failed |-> failAt]
    ELSE IF steps[i] = failAt
         THEN RunStepsContinue(ApplyFailedStep(p, steps[i], partial), steps, i + 1,
                               failAt, partial, skill_name)
         ELSE RunStepsContinue(ApplyStep(p, steps[i], skill_name), steps, i + 1,
                               failAt, partial, skill_name)

\* The steps from the i-th on, stopping at the one that raises: every except
\* clause of scaffold_skill ends in sys.exit(1), nothing is undone.
RECURSIVE RunSteps(_, _, _, _, _, _)
RunSteps(p, steps, i, failAt, partial, skill_name) ==
    IF i > Len(steps) THEN [pkg |-> p, failed |-> "none"]
    ELSE IF steps[i] = failAt
         THEN [pkg |-> ApplyFailedStep(p, steps[i], partial), failed |-> steps[i]]
         ELSE RunSteps(ApplyStep(p, steps[i], skill_name), steps, i + 1,
                       failAt, partial, skill_name)

\* The message of the except clause that catches a failure of `step`.
StepError(step) ==
    CASE step = "none" -> "none"
      [] step = "mkdir" -> "mkdir"
      [] step = "skill_md" -> "skill_md"
      [] OTHER -> "resources"

\* A mutant: the existence check left out.
PathExistsNever(p) == FALSE

\* skill_path.exists()
PathExists(p) == p.exists

\* scaffold_skill(skill_name, simple_mode), with the filesystem call that
\* raises (if any) chosen by the environment.
scaffold_skill(simple_mode, failAt, partial) ==
    IF ~ScaffolderAccepts(name)
    THEN /\ last' = ScaffoldOutcome(simple_mode, 1, "naming")
         /\ UNCHANGED <<name, pkg, scaffolded>>
    ELSE IF PathExists(pkg)
    THEN /\ last' = ScaffoldOutcome(simple_mode, 1, "exists")
         /\ UNCHANGED <<name, pkg, scaffolded>>
    ELSE LET r == RunSteps(pkg, ScaffoldSteps(simple_mode), 1, failAt, partial, name)
         IN  /\ pkg' = r.pkg
             /\ last' = ScaffoldOutcome(simple_mode,
                                        IF r.failed = "none" THEN 0 ELSE 1,
                                        StepError(r.failed))
             /\ scaffolded' = (scaffolded \/ r.failed = "none")
             /\ UNCHANGED name

Scaffold ==
    \E simple_mode \in BOOLEAN, failAt \in FailPoints, partial \in BOOLEAN :
        scaffold_skill(simple_mode, failAt, partial)

(* ----------------------------- the Validator --------------------------- *)

ValidateOutcome(exit, status, err, errors, warnings) ==
    [NoOp EXCEPT !.op = "validate", !.exit = exit, !.status = status, !.err = err,
                 !.errors = errors, !.warnings = warnings]

\* 1. CRITICAL: Identity & Naming
NamingErrors(skill_dir) ==
    IF ~ValidatorAccepts(skill_dir) THEN <<Finding("naming", <<>>, <<>>)>> ELSE <<>>

\* A mutant: the existence check of the entry document left out.
EntryPointErrorsNone(p) == <<>>

\* 2. CRITICAL: The Entry Point
EntryPointErrors(p) ==
    IF p.doc.kind = "absent" THEN <<Finding("missing_doc", <<>>, <<>>)>> ELSE <<>>

\* A mutant: the comparison with the directory name left out.
NameFieldErrorsNoMismatch(content, skill_dir) ==
    IF ~ReSearchField("name:", content).found
    THEN <<Finding("missing_name", <<>>, <<>>)>>
    ELSE <<>>

\* 3. CRITICAL: Metadata Consistency, the `name` field
NameFieldErrors(content, skill_dir) ==
    LET name_match == ReSearchField("name:", content)
    IN  IF ~name_match.found THEN <<Finding("missing_name", <<>>, <<>>)>>
        ELSE IF Strip(name_match.value) # skill_dir
             THEN <<Finding("mismatch", Strip(name_match.value), skill_dir)>>
             ELSE <<>>

\* 3. CRITICAL: Metadata Consistency, the `description` field
DescriptionFieldErrors(content) ==
    IF ~ReSearchField("description:", content).found
    THEN <<Finding("missing_description", <<>>, <<>>)>>
    ELSE <<>>

MetadataErrors(content, skill_dir) ==
    NameFieldErrors(content, skill_dir) \o DescriptionFieldErrors(content)

\* 4. ADVISORY: Progressive Disclosure
Advisories(p) ==
    (IF "references" \notin p.dirs THEN <<"no_references">> ELSE <<>>)
    \o (IF "scripts" \notin p.dirs THEN <<"no_scripts">> ELSE <<>>)

\* A mutant: advisory notes fail the run like critical findings.
FinalReportStrict(errors, warnings) ==
    IF errors # <<>> \/ warnings # <<>>
    THEN ValidateOutcome(1, "FAIL", "none", errors, warnings)
    ELSE ValidateOutcome(0, "PASS", "none", errors, warnings)

\* Final Report: sys.exit(1) when errors is not empty, else [PASS] and a
\* normal return.
FinalReport(errors, warnings) ==
    IF errors # <<>>
    THEN ValidateOutcome(1, "FAIL", "none", errors, warnings)
    ELSE ValidateOutcome(0, "PASS", "none", errors, warnings)

\* validate_skill(path) for path = parent/name.  open()/read() are not
\* inside a try: when they raise, the interpreter ends the process with a
\* traceback and code 1 before any report is printed; `errors` then holds
\* what had been appended so far.
validate_skill(skill_dir, p) ==
    LET found == NamingErrors(skill_dir) \o EntryPointErrors(p)
    IN  CASE p.doc.kind = "absent" -> FinalReport(found, Advisories(p))
          [] p.doc.kind = "undecodable" ->
                ValidateOutcome(1, "NONE", "crash", found, <<>>)
          [] p.doc.kind = "text" ->
                FinalReport(found \o MetadataErrors(p.doc.text, skill_dir), Advisories(p))

\* os.path.basename(os.path.normpath(path)) is the name for every path
\* parent/name with a name that is not empty.
Validate ==
    /\ name # <<>>
    /\ last' = validate_skill(name, pkg)
    /\ UNCHANGED <<name, pkg, scaffolded>>

(* ------------------------- the author (environment) -------------------- *)

OtherName == <<"a", "-", "1">>

\* The `name:` lines an author may write in a package named n.
NameLines(n) ==
    {<<"name:">>, <<"name:", " ">>, <<"name:", " ">> \o n, <<"name:">> \o n \o <<" ">>,
     <<"name:", " ">> \o OtherName, <<" ", "name:", " ">> \o n}

DescriptionLines ==
    {<<"description:">>, <<"description:", " ">>, <<"description:", " ", "T">>}

RECURSIVE JoinLines(_)
JoinLines(ls) ==
    IF ls = <<>> THEN <<>> ELSE Head(ls) \o <<Newline>> \o JoinLines(Tail(ls))

\* Entry documents an author may leave: the opening delimiter, at most one
\* `name:` line and at most one `description:` line in either order, and
\* possibly the closing delimiter; every line ends with a newline.
AuthorDocs(n) ==
    LET fields ==
            {<<>>}
            \cup {<<l>> : l \in NameLines(n) \cup DescriptionLines}
            \cup {<<l, m>> : l \in NameLines(n), m \in DescriptionLines}
            \cup {<<m, l>> : l \in NameLines(n), m \in DescriptionLines}
        closing == {<<>>, <<(<<"---">>)>>}
    IN  {JoinLines(<<(<<"---">>)>> \o f \o c) : f \in fields, c \in closing}

\* The author creates the package directory by hand.
AuthorMkdir ==
    /\ name # <<>>
    /\ ~pkg.exists
    /\ pkg' = EmptyPkg
    /\ last' = AuthorOutcome
    /\ UNCHANGED <<name, scaffolded>>

\* The author writes or rewrites the entry document.
AuthorWrite ==
    /\ pkg.exists
    /\ \E d \in AuthorDocs(name) : pkg' = [pkg EXCEPT !.doc = TextDoc(d)]
    /\ last' = AuthorOutcome
    /\ UNCHANGED <<name, scaffolded>>

\* The entry document ends up holding bytes that do not decode as text.
AuthorCorrupt ==
    /\ pkg.exists
    /\ pkg' = [pkg EXCEPT !.doc = UndecodableDoc]
    /\ last' = AuthorOutcome
    /\ UNCHANGED <<name, scaffolded>>

\* The author adds one of the two subdirectories the Validator looks for.
AuthorAddDir ==
    /\ pkg.exists
    /\ \E d \in {"scripts", "references"} :
          /\ d \notin pkg.dirs
          /\ pkg' = [pkg EXCEPT !.dirs = @ \cup {d}]
    /\ last' = AuthorOutcome
    /\ UNCHANGED <<name, scaffolded>>

(* --------------------------- specifications ---------------------------- *)

\* Package names an author works under: two legal ones, one with an
\* upper-case letter, one of a single character, one with a leading hyphen
\* and one that ends in a newline.
SampleNames ==
    {<<"a", "1">>, <<"a", "-", "a">>, <<"A", "1">>, <<"a">>, <<"-", "a">>,
     <<"a", "1", Newline>>}

Start(names) ==
    /\ name \in names
    /\ pkg = NoPkg
    /\ last = NoOp
    /\ scaffolded = FALSE

\* The life of one package: scaffolded or made by hand, edited, validated.
Init == Start(SampleNames)

Next ==
    \/ Scaffold
    \/ Validate
    \/ AuthorMkdir
    \/ AuthorWrite
    \/ AuthorCorrupt
    \/ AuthorAddDir

Spec == Init /\ [][Next]_vars

\* The two commands alone, run on every string up to MaxNameLen.
ToolInit == Start(Names)

ToolNext ==
    \/ Scaffold
    \/ Validate

ToolSpec == ToolInit /\ [][ToolNext]_vars

(* ------------------------------ properties ----------------------------- *)

\* The naming law in the words of the specification: only lower-case
\* letters, digits and hyphens, a letter or digit first and last, at least
\* two characters.
IsLegalIdentifier(s) ==
    /\ Len(s) >= 2
    /\ \A i \in 1..Len(s) : s[i] \in Lower \cup Digit \cup {Hyphen}
    /\ s[1] \in Lower \cup Digit
    /\ s[Len(s)] \in Lower \cup Digit

HasFinding(kind) == \E i \in 1..Len(last.errors) : last.errors[i].kind = kind

\* The text holds the line `key value` and no other line that starts with key.
HasLine(t, key, value) ==
    LET line == <<key, " ">> \o value
    IN  /\ \E p \in 1..Len(t) :
              /\ AtLineStart(t, p)
              /\ p + Len(line) - 1 <= Len(t)
              /\ SubSeq(t, p, p + Len(line) - 1) = line
              /\ p + Len(line) > Len(t) \/ t[p + Len(line)] = Newline
        /\ Cardinality({p \in 1..Len(t) : t[p] = key}) = 1

\* The text holds no line that starts with key and carries, after the key, a
\* character that is not whitespace.
EmptyOrMissing(t, key) ==
    \A p \in 1..Len(t) :
        t[p] = key /\ AtLineStart(t, p) =>
            \A q \in (p + 1)..LineEnd(t, p) : IsSpace(t[q])

\* C1 (round trip): once scaffold has succeeded for a legal name, with
\* either value of simple, a validate of the created package reports no
\* CRITICAL finding: status PASS, exit 0.
C1_RoundTrip ==
    (last.op = "validate" /\ scaffolded /\ IsLegalIdentifier(name)) =>
        (last.errors = <<>> /\ last.status = "PASS" /\ last.exit = 0)

C1_Witness ==
    /\ last.op = "validate"
    /\ scaffolded
    /\ IsLegalIdentifier(name)
    /\ \E i \in 1..Len(name) : name[i] = Hyphen
    /\ pkg.dirs = {}
    /\ last.status = "PASS"

\* C2 (NameRule): the Scaffolder and the Validator accept a string exactly
\* when it is a legal identifier in the words of the specification.
C2_NameRule ==
    /\ last.op = "scaffold" => ((last.err # "naming") <=> IsLegalIdentifier(name))
    /\ last.op = "validate" => (~HasFinding("naming") <=> IsLegalIdentifier(name))

\* C3: the status of a validate run is PASS exactly when its CRITICAL list
\* is empty, and the process ends with a non-zero code exactly when the
\* status is not PASS.
C3_StatusAndExit ==
    last.op = "validate" =>
        /\ last.status = "PASS" <=> last.errors = <<>>
        /\ last.exit # 0 <=> last.status # "PASS"

\* C4: a scaffold of a name that is not a legal identifier fails with the
\* naming error, exit 1, and leaves the filesystem as it was.
C4_IllegalNameNoMutation ==
    [][(~IsLegalIdentifier(name) /\ last'.op = "scaffold") =>
          (last'.exit = 1 /\ last'.err = "naming" /\ pkg' = pkg)]_vars

\* C5 (idempotent rejection): after a scaffold of the name has succeeded,
\* every later scaffold of it fails with the already-exists error, exit 1,
\* and changes nothing of the package.
C5_IdempotentRejection ==
    [][(scaffolded /\ last'.op = "scaffold") =>
          (last'.exit = 1 /\ last'.err = "exists" /\ pkg' = pkg)]_vars

\* A second scaffold without simple was rejected on a package that the
\* first one created with simple.
C5_Witness ==
    /\ scaffolded
    /\ last.op = "scaffold"
    /\ last.err = "exists"
    /\ ~last.simple
    /\ pkg.dirs = {}
    /\ pkg.doc = TextDoc(SKILL_MD_TEMPLATE(name, title_case_skill_name(name)))

\* C6 (missing document): for a legally named directory without an entry
\* document validate reports the missing document as its one CRITICAL
\* finding, none about name or description, and ends FAIL.
C6_MissingDocument ==
    (last.op = "validate" /\ IsLegalIdentifier(name) /\ pkg.doc.kind = "absent") =>
        /\ last.errors = <<Finding("missing_doc", <<>>, <<>>)>>
        /\ last.status = "FAIL"
        /\ last.exit = 1

C6_Witness ==
    /\ last.op = "validate"
    /\ IsLegalIdentifier(name)
    /\ pkg.exists
    /\ pkg.doc.kind = "absent"

\* C7 as stated: a document that declares `name: other-name` in a legally
\* named directory of another name gets exactly one CRITICAL finding, which
\* cites both names.
C7_MismatchAlone ==
    (/\ last.op = "validate"
     /\ IsLegalIdentifier(name)
     /\ name # OtherName
     /\ pkg.doc.kind = "text"
     /\ HasLine(pkg.doc.text, "name:", OtherName)) =>
        last.errors = <<Finding("mismatch", OtherName, name)>>

\* C7 as amended: a document that declares `name: other-name` and carries a
\* description, in a legally named directory of another name, gets exactly
\* one CRITICAL finding, which cites both names.
C7_MismatchWithDescription ==
    (/\ last.op = "validate"
     /\ IsLegalIdentifier(name)
     /\ name # OtherName
     /\ pkg.doc.kind = "text"
     /\ HasLine(pkg.doc.text, "name:", OtherName)
     /\ HasLine(pkg.doc.text, "description:", <<"T">>)) =>
        last.errors = <<Finding("mismatch", OtherName, name)>>

C7_Witness ==
    /\ last.op = "validate"
    /\ IsLegalIdentifier(name)
    /\ name # OtherName
    /\ pkg.doc.kind = "text"
    /\ HasLine(pkg.doc.text, "name:", OtherName)
    /\ HasLine(pkg.doc.text, "description:", <<"T">>)
    /\ last.status = "FAIL"

\* C8 (advisory only): a legally named package whose document declares its
\* own name and a description, without scripts/ and references/, passes with
\* exactly two ADVISORY findings and no CRITICAL one; and whichever of the
\* two directories exist, the CRITICAL findings are the same.
C8_AdvisoryOnly ==
    /\ (/\ last.op = "validate"
        /\ IsLegalIdentifier(name)
        /\ pkg.doc.kind = "text"
        /\ HasLine(pkg.doc.text, "name:", name)
        /\ HasLine(pkg.doc.text, "description:", <<"T">>)
        /\ pkg.dirs \cap {"scripts", "references"} = {}) =>
            /\ last.status = "PASS"
            /\ last.exit = 0
            /\ last.errors = <<>>
            /\ Len(last.warnings) = 2
    /\ last.op = "validate" =>
            \A ds \in SUBSET {"scripts", "references"} :
                /\ validate_skill(name, [pkg EXCEPT !.dirs = ds]).errors = last.errors
                /\ validate_skill(name, [pkg EXCEPT !.dirs = ds]).status = last.status

C8_Witness ==
    /\ last.op = "validate"
    /\ IsLegalIdentifier(name)
    /\ pkg.doc.kind = "text"
    /\ HasLine(pkg.doc.text, "name:", name)
    /\ HasLine(pkg.doc.text, "description:", <<"T">>)
    /\ pkg.dirs = {}
    /\ Len(last.warnings) = 2

\* C9: an entry document that exists and cannot be read is reported as a
\* CRITICAL finding through the normal report, with status FAIL.
C9_UnreadableIsReported ==
    (last.op = "validate" /\ pkg.doc.kind = "undecodable") =>
        /\ last.err # "crash"
        /\ last.status = "FAIL"
        /\ HasFinding("cannot_read")

\* C10: a document without a description, or with a description line that
\* is empty, gets the missing-description finding; and a document whose
\* name line is empty is treated as one without a name: it gets a CRITICAL
\* finding about the name that cites no value.
C10_EmptyFieldsAreMissing ==
    (last.op = "validate" /\ pkg.doc.kind = "text") =>
        /\ EmptyOrMissing(pkg.doc.text, "description:") => HasFinding("missing_description")
        /\ EmptyOrMissing(pkg.doc.text, "name:") =>
              \E i \in 1..Len(last.errors) :
                  /\ last.errors[i].kind \in {"missing_name", "mismatch"}
                  /\ last.errors[i].declared = <<>>

\* The entry document as the Scaffolder writes it for this name.
ScaffoldedDoc == TextDoc(SKILL_MD_TEMPLATE(name, title_case_skill_name(name)))

\* C11 (scaffold failure semantics): what is on disk is always a prefix of
\* the steps in program order (package directory, entry document, scripts/
\* and its file and mode, references/ and its file, assets/ and its file):
\* nothing of a later step exists without the steps before it, so a
\* subdirectory exists only if the entry document was written and the entry
\* document only if the package directory exists; a scaffold that fails
\* ends with exit 1, has run none of the steps after the failing one and
\* has left what the earlier ones created.
C11_FailureSemantics ==
    /\ pkg.doc.kind # "absent" => pkg.exists
    /\ (pkg.dirs # {} \/ pkg.files # {} \/ pkg.exec # {}) => pkg.doc = ScaffoldedDoc
    /\ "scripts/example.py" \in pkg.files => "scripts" \in pkg.dirs
    /\ "scripts/example.py" \in pkg.exec => "scripts/example.py" \in pkg.files
    /\ "references" \in pkg.dirs => "scripts/example.py" \in pkg.exec
    /\ "references/example_reference.md" \in pkg.files => "references" \in pkg.dirs
    /\ "assets" \in pkg.dirs => "references/example_reference.md" \in pkg.files
    /\ "assets/README.md" \in pkg.files => "assets" \in pkg.dirs
    /\ last.op = "scaffold" =>
          /\ last.exit = 0 <=> last.err = "none"
          /\ last.exit \in {0, 1}
          /\ last.err = "mkdir" => pkg = NoPkg
          /\ last.err = "skill_md" =>
                /\ pkg.exists
                /\ pkg.doc \in {NoDoc, TextDoc(<<>>)}
                /\ pkg.dirs = {} /\ pkg.files = {} /\ pkg.exec = {}
          /\ last.err = "resources" =>
                /\ ~last.simple
                /\ pkg.exists
                /\ pkg.doc = ScaffoldedDoc
                /\ "assets/README.md" \in pkg.files =>
                      pkg.dirs = {"scripts", "references", "assets"}

\* A scaffold failed while creating references/: scripts/ and its file stay,
\* references/ and assets/ were not created.
C11_Witness ==
    /\ last.op = "scaffold"
    /\ last.exit = 1
    /\ last.err = "resources"
    /\ pkg.doc = ScaffoldedDoc
    /\ pkg.dirs = {"scripts"}
    /\ "scripts/example.py" \in pkg.exec

\* What a validate run has reported: nothing when it ended in a traceback.
ReportedErrors == IF last.err = "crash" THEN <<>> ELSE last.errors

Reported(kind) ==
    \E i \in 1..Len(ReportedErrors) : ReportedErrors[i].kind = kind

\* The findings of one kind among those reported, in order.
ReportedOf(kinds) == SelectSeq(ReportedErrors, LAMBDA f : f.kind \in kinds)

\* C12 (accumulation): one validate run reports every violated check: the
\* naming finding whenever the directory name fails the check, whatever
\* else is wrong; the missing-document finding, and no metadata finding,
\* whenever there is no entry document; and whenever there is one, the
\* report is made and holds what the name check and the description check
\* each find in it, and the advisory checks are carried out.
C12_Accumulation ==
    last.op = "validate" =>
        /\ Reported("naming") <=> ~ValidatorAccepts(name)
        /\ Reported("missing_doc") <=> pkg.doc.kind = "absent"
        /\ pkg.doc.kind = "absent" =>
              ReportedOf({"missing_name", "mismatch", "missing_description"}) = <<>>
        /\ pkg.doc.kind # "absent" =>
              /\ last.status \in {"PASS", "FAIL"}
              /\ Len(last.warnings) =
                    Cardinality({"scripts", "references"} \ pkg.dirs)
              /\ ReportedOf({"missing_name", "mismatch"}) =
                    NameFieldErrors(pkg.doc.text, name)
              /\ ReportedOf({"missing_description"}) =
                    DescriptionFieldErrors(pkg.doc.text)

\* The package a scaffold has to leave: the directory and its entry
\* document, and unless simple the three subdirectories, each with its one
\* placeholder file, scripts/example.py executable.
ExpectedPackage(simple) ==
    [exists |-> TRUE,
     doc |-> ScaffoldedDoc,
     dirs |-> IF simple THEN {} ELSE {"scripts", "references", "assets"},
     files |-> IF simple THEN {}
               ELSE {"scripts/example.py", "references/example_reference.md",
                     "assets/README.md"},
     exec |-> IF simple THEN {} ELSE {"scripts/example.py"}]

\* C13 (simple mode): a scaffold that succeeds leaves exactly the package
\* of its mode, and a validate of that package finds two ADVISORY notes
\* after simple and none otherwise.
C13_SimpleMode ==
    [][/\ (last'.op = "scaffold" /\ last'.exit = 0) =>
              pkg' = ExpectedPackage(last'.simple)
       /\ (last.op = "scaffold" /\ last.exit = 0 /\ last'.op = "validate") =>
              Len(last'.warnings) = IF last.simple THEN 2 ELSE 0]_vars

\* A validate of a package scaffolded with its three subdirectories.
C13_Witness ==
    /\ last.op = "validate"
    /\ scaffolded
    /\ pkg = ExpectedPackage(FALSE)
    /\ last.warnings = <<>>

====
